---------------------------- MODULE Spec2Model ----------------------------
(***************************************************************************)
(* A model of src/create-prompt/index.ts of claude-code-action: the        *)
(* context normalizer (prepareContext), the event classifier               *)
(* (getEventTypeAndContext), the capability set builders                   *)
(* (buildAllowedToolsString, buildDisallowedToolsString), the document     *)
(* assembler (generatePrompt) and the process wiring (createPrompt).       *)
(*                                                                         *)
(* Representation of JavaScript values.                                    *)
(*   - A string is a sequence of atoms.  An atom is a TLA+ string standing *)
(*     for a run of characters that the program never splits (a tool       *)
(*     name, a digit, a comma, a chunk of fixed template text).  The empty *)
(*     string is << >>, concatenation is \o.                               *)
(*   - A value of type `string | undefined` is Undefined (<< >>) or        *)
(*     Some(s) (<< s >>), so that undefined and "" are different values.   *)
(*   - An object is a function whose DOMAIN is the set of its own keys: a  *)
(*     key that a conditional spread leaves out is not in the DOMAIN.      *)
(***************************************************************************)
EXTENDS Naturals, Sequences, FiniteSets, TLC

VARIABLES
    pc,          \* position of createPrompt
    context,     \* the arguments of createPrompt (raw trigger context)
    githubData,  \* the fetched data bag handed to createPrompt
    prepared,    \* what prepareContext returned or threw
    prompt,      \* what generatePrompt returned
    promptFile,  \* content of /tmp/claude-prompts/claude-prompt.txt
    exported,    \* the exported process variables, in export order
    failed,      \* core.setFailed was called
    exitCode,    \* process.exit code
    toolArgs,    \* arguments of a direct call of a capability set builder
    toolResult,  \* what that call returned
    tokenPc,     \* position of a call of autoRefreshTokensIfNeeded
    tokenArgs,   \* its arguments and the clock at the call
    requests,    \* the refresh requests sent to the token endpoint
    response,    \* the response to the refresh request
    thrown,      \* the error in flight inside the call
    tokenResult  \* what the call returned or threw

promptVars == <<pc, context, githubData, prepared, prompt, promptFile,
                exported, failed, exitCode, toolArgs, toolResult>>

tokenVars == <<tokenPc, tokenArgs, requests, response, thrown, tokenResult>>

vars == <<pc, context, githubData, prepared, prompt, promptFile, exported,
          failed, exitCode, toolArgs, toolResult, tokenPc, tokenArgs,
          requests, response, thrown, tokenResult>>

-----------------------------------------------------------------------------
(* JavaScript values *)

Undefined == << >>

Some(s) == << s >>

\* JavaScript truthiness of a `string | undefined`: undefined and "" are falsy.
Truthy(v) == v # Undefined /\ v[1] # << >>

\* The string of a value known to be a string.
StrOf(v) == v[1]

\* `v || d` on strings.
OrElse(v, d) == IF Truthy(v) THEN StrOf(v) ELSE d

\* `v ?? d`: only null/undefined is replaced.
Nullish(v, d) == IF v = Undefined THEN Some(d) ELSE v

EmptyObj == [k \in {} |-> Undefined]

\* `...(v && { k: v })`: the key is added only for a truthy value.
SpreadIf(k, v) == IF Truthy(v) THEN k :> v ELSE EmptyObj

Has(obj, k) == k \in DOMAIN obj

\* A key that is present and holds a non-empty string.
Populated(obj, k) == Has(obj, k) /\ Truthy(obj[k])

Contains(s, atom) == \E i \in 1..Len(s) : s[i] = atom

Digit == <<"0", "1", "2", "3", "4", "5", "6", "7", "8", "9">>

\* Mutant: only the last decimal digit is produced.
NumberToString_LastDigit(n) == << Digit[(n % 10) + 1] >>

\* Number.prototype.toString() of a non-negative integer: its decimal digits.
RECURSIVE NumberToString(_)
NumberToString(n) ==
    IF n < 10 THEN << Digit[n + 1] >>
    ELSE NumberToString(n \div 10) \o << Digit[(n % 10) + 1] >>

\* Array.prototype.join(sep) of an array of strings.
RECURSIVE Join(_, _)
Join(arr, sep) ==
    IF arr = << >> THEN << >>
    ELSE IF Len(arr) = 1 THEN arr[1]
    ELSE arr[1] \o sep \o Join(Tail(arr), sep)

-----------------------------------------------------------------------------
(* Capability set builder *)

BASE_ALLOWED_TOOLS ==
    << <<"Edit">>, <<"Glob">>, <<"Grep">>, <<"LS">>, <<"Read">>, <<"Write">>,
       <<"mcp__github_file_ops__commit_files">>,
       <<"mcp__github_file_ops__delete_files">> >>

DISALLOWED_TOOLS == << <<"WebSearch">>, <<"WebFetch">> >>

UpdatePRComment == "mcp__github__update_pull_request_comment"

UpdateIssueComment == "mcp__github__update_issue_comment"

\* Mutant: every event kind gets the issue comment tool.
CommentToolFor_AlwaysIssue(eventName) == UpdateIssueComment

\* The comment tool pushed onto the base tools for an event kind.
CommentToolFor(eventName) ==
    IF eventName = "pull_request_review_comment"
    THEN UpdatePRComment
    ELSE UpdateIssueComment

\* Mutant: an extra string is dropped when it repeats a tool already listed.
AppendCustom_Dedup(all, custom) ==
    IF Truthy(custom) /\ ~\E i \in 1..Len(StrOf(custom)) :
                              StrOf(custom)[i] # "," /\ Contains(all, StrOf(custom)[i])
    THEN all \o <<",">> \o StrOf(custom)
    ELSE all

\* `${all},${custom}` when custom is truthy, else all.
AppendCustom(all, custom) ==
    IF Truthy(custom) THEN all \o <<",">> \o StrOf(custom) ELSE all

buildAllowedToolsString(eventData, customAllowedTools) ==
    LET baseTools ==
            Append(BASE_ALLOWED_TOOLS, << CommentToolFor(eventData.eventName) >>)
    IN  AppendCustom(Join(baseTools, <<",">>), customAllowedTools)

buildDisallowedToolsString(customDisallowedTools) ==
    AppendCustom(Join(DISALLOWED_TOOLS, <<",">>), customDisallowedTools)

-----------------------------------------------------------------------------
(* Context normalizer *)

\* A function either returns a value or throws an Error with a message.
Return(v) == [ok |-> TRUE, value |-> v]

Throw(message) == [ok |-> FALSE, error |-> message]

\* Mutant: the message does not say which field is missing.
RequiredError_Generic(fieldName, event, suffix) ==
    Throw(<<"A required field is missing for ", event, " event">> \o suffix)

\* "<FIELD> is required for <event> event<suffix>"
RequiredError(fieldName, event, suffix) ==
    Throw(<<fieldName, " is required for ", event, " event">> \o suffix)

\* "IS_PR must be <true|false> for <event> event"
IsPRError(expected, event) ==
    Throw(<<"IS_PR", " must be ", expected, " for ", event, " event">>)

\* The type guards of ../github/context narrow the context by its event name.
isIssueCommentEvent(ctx) == ctx.eventName = "issue_comment"

isPullRequestReviewEvent(ctx) == ctx.eventName = "pull_request_review"

isPullRequestReviewCommentEvent(ctx) ==
    ctx.eventName = "pull_request_review_comment"

isIssuesEvent(ctx) == ctx.eventName = "issues"

\* Lines 87-88: which of the two numbers the entity number becomes.
PrNumberOf(ctx) ==
    IF ctx.isPR THEN Some(NumberToString(ctx.entityNumber)) ELSE Undefined

IssueNumberOf(ctx) ==
    IF ~ctx.isPR THEN Some(NumberToString(ctx.entityNumber)) ELSE Undefined

\* Lines 91-108: (triggerUsername, commentId, commentBody) by payload kind.
\* payload.id, payload.body and payload.login stand for comment.id,
\* comment.body / review.body and *.user.login of the kind's payload.
ReviewBodyOf(payload) == Nullish(payload.body, << >>)

ExtractTriggerData(ctx) ==
    IF isIssueCommentEvent(ctx) THEN
        [triggerUsername |-> ctx.payload.login,
         commentId |-> Some(NumberToString(ctx.payload.id)),
         commentBody |-> ctx.payload.body]
    ELSE IF isPullRequestReviewEvent(ctx) THEN
        [triggerUsername |-> ctx.payload.login,
         commentId |-> Undefined,
         commentBody |-> ReviewBodyOf(ctx.payload)]
    ELSE IF isPullRequestReviewCommentEvent(ctx) THEN
        [triggerUsername |-> ctx.payload.login,
         commentId |-> Some(NumberToString(ctx.payload.id)),
         commentBody |-> ctx.payload.body]
    ELSE IF isIssuesEvent(ctx) THEN
        [triggerUsername |-> ctx.payload.login,
         commentId |-> Undefined,
         commentBody |-> Undefined]
    ELSE
        [triggerUsername |-> Undefined,
         commentId |-> Undefined,
         commentBody |-> Undefined]

TriggerPhraseOf(ctx) == OrElse(ctx.inputs.triggerPhrase, <<"@claude">>)

\* Lines 111-121: the infrastructure fields.
CommonFieldsOf(ctx, triggerUsername) ==
    ("repository" :> Some(ctx.repository))
    @@ ("claudeCommentId" :> Some(NumberToString(ctx.claudeCommentId)))
    @@ ("triggerPhrase" :> Some(TriggerPhraseOf(ctx)))
    @@ SpreadIf("triggerUsername", triggerUsername)
    @@ SpreadIf("customInstructions", ctx.inputs.customInstructions)
    @@ SpreadIf("allowedTools", ctx.inputs.allowedTools)
    @@ SpreadIf("disallowedTools", ctx.inputs.disallowedTools)
    @@ SpreadIf("directPrompt", ctx.inputs.directPrompt)
    @@ SpreadIf("claudeBranch", ctx.claudeBranch)

\* The optional branch keys shared by the PR variants.
BranchSpread(v) ==
    SpreadIf("claudeBranch", v.claudeBranch)
    @@ SpreadIf("defaultBranch", v.defaultBranch)

\* Lines 127-152.
PullRequestReviewCommentCase(v) ==
    IF ~Truthy(v.prNumber) THEN
        RequiredError("PR_NUMBER", "pull_request_review_comment", << >>)
    ELSE IF ~v.isPR THEN
        IsPRError("true", "pull_request_review_comment")
    ELSE IF ~Truthy(v.commentBody) THEN
        RequiredError("COMMENT_BODY", "pull_request_review_comment", << >>)
    ELSE Return(
        [eventName |-> "pull_request_review_comment",
         isPR |-> TRUE,
         prNumber |-> v.prNumber,
         commentBody |-> v.commentBody]
        @@ SpreadIf("commentId", v.commentId)
        @@ BranchSpread(v))

\* Mutant: an empty review body is let through.
PullRequestReviewCase_AllowEmptyBody(v) ==
    IF ~Truthy(v.prNumber) THEN
        RequiredError("PR_NUMBER", "pull_request_review", << >>)
    ELSE IF ~v.isPR THEN
        IsPRError("true", "pull_request_review")
    ELSE Return(
        [eventName |-> "pull_request_review",
         isPR |-> TRUE,
         prNumber |-> v.prNumber,
         commentBody |-> v.commentBody]
        @@ BranchSpread(v))

\* Lines 154-174.
PullRequestReviewCase(v) ==
    IF ~Truthy(v.prNumber) THEN
        RequiredError("PR_NUMBER", "pull_request_review", << >>)
    ELSE IF ~v.isPR THEN
        IsPRError("true", "pull_request_review")
    ELSE IF ~Truthy(v.commentBody) THEN
        RequiredError("COMMENT_BODY", "pull_request_review", << >>)
    ELSE Return(
        [eventName |-> "pull_request_review",
         isPR |-> TRUE,
         prNumber |-> v.prNumber,
         commentBody |-> v.commentBody]
        @@ BranchSpread(v))

\* Lines 176-219.
IssueCommentCase(v) ==
    IF ~Truthy(v.commentId) THEN
        RequiredError("COMMENT_ID", "issue_comment", << >>)
    ELSE IF ~Truthy(v.commentBody) THEN
        RequiredError("COMMENT_BODY", "issue_comment", << >>)
    ELSE IF v.isPR THEN
        IF ~Truthy(v.prNumber) THEN
            RequiredError("PR_NUMBER", "issue_comment", <<" for PRs">>)
        ELSE Return(
            [eventName |-> "issue_comment",
             commentId |-> v.commentId,
             isPR |-> TRUE,
             prNumber |-> v.prNumber,
             commentBody |-> v.commentBody]
            @@ BranchSpread(v))
    ELSE IF ~Truthy(v.claudeBranch) THEN
        RequiredError("CLAUDE_BRANCH", "issue_comment", << >>)
    ELSE IF ~Truthy(v.defaultBranch) THEN
        RequiredError("DEFAULT_BRANCH", "issue_comment", << >>)
    ELSE IF ~Truthy(v.issueNumber) THEN
        RequiredError("ISSUE_NUMBER", "issue_comment", <<" for issues">>)
    ELSE Return(
        [eventName |-> "issue_comment",
         commentId |-> v.commentId,
         isPR |-> FALSE,
         claudeBranch |-> v.claudeBranch,
         defaultBranch |-> v.defaultBranch,
         issueNumber |-> v.issueNumber,
         commentBody |-> v.commentBody])

\* Mutant: the assigned branch does not check the assignee trigger.
IssuesActionCase_NoAssigneeCheck(v) ==
    IF v.eventAction = Some(<<"assigned">>) THEN
        Return(
            [eventName |-> "issues",
             eventAction |-> Some(<<"assigned">>),
             isPR |-> FALSE,
             issueNumber |-> v.issueNumber,
             defaultBranch |-> v.defaultBranch,
             claudeBranch |-> v.claudeBranch,
             assigneeTrigger |-> v.assigneeTrigger])
    ELSE IF v.eventAction = Some(<<"opened">>) THEN
        Return(
            [eventName |-> "issues",
             eventAction |-> Some(<<"opened">>),
             isPR |-> FALSE,
             issueNumber |-> v.issueNumber,
             defaultBranch |-> v.defaultBranch,
             claudeBranch |-> v.claudeBranch])
    ELSE Throw(<<"Unsupported issue action: ">> \o StrOf(v.eventAction))

\* Lines 238-264: dispatch of the issues kind on its action.
IssuesActionCase(v) ==
    IF v.eventAction = Some(<<"assigned">>) THEN
        IF ~Truthy(v.assigneeTrigger) THEN
            RequiredError("ASSIGNEE_TRIGGER", "issue assigned", << >>)
        ELSE Return(
            [eventName |-> "issues",
             eventAction |-> Some(<<"assigned">>),
             isPR |-> FALSE,
             issueNumber |-> v.issueNumber,
             defaultBranch |-> v.defaultBranch,
             claudeBranch |-> v.claudeBranch,
             assigneeTrigger |-> v.assigneeTrigger])
    ELSE IF v.eventAction = Some(<<"opened">>) THEN
        Return(
            [eventName |-> "issues",
             eventAction |-> Some(<<"opened">>),
             isPR |-> FALSE,
             issueNumber |-> v.issueNumber,
             defaultBranch |-> v.defaultBranch,
             claudeBranch |-> v.claudeBranch])
    ELSE Throw(<<"Unsupported issue action: ">> \o StrOf(v.eventAction))

\* Mutant: every action but "assigned" is handled as "opened".
IssuesCase_AnyActionOpened(v) ==
    IF ~Truthy(v.eventAction) THEN
        RequiredError("GITHUB_EVENT_ACTION", "issues", << >>)
    ELSE IF ~Truthy(v.issueNumber) THEN
        RequiredError("ISSUE_NUMBER", "issues", << >>)
    ELSE IF v.isPR THEN
        IsPRError("false", "issues")
    ELSE IF ~Truthy(v.defaultBranch) THEN
        RequiredError("DEFAULT_BRANCH", "issues", << >>)
    ELSE IF ~Truthy(v.claudeBranch) THEN
        RequiredError("CLAUDE_BRANCH", "issues", << >>)
    ELSE IF v.eventAction = Some(<<"assigned">>) THEN IssuesActionCase(v)
    ELSE IssuesActionCase([v EXCEPT !.eventAction = Some(<<"opened">>)])

\* Lines 221-265.
IssuesCase(v) ==
    IF ~Truthy(v.eventAction) THEN
        RequiredError("GITHUB_EVENT_ACTION", "issues", << >>)
    ELSE IF ~Truthy(v.issueNumber) THEN
        RequiredError("ISSUE_NUMBER", "issues", << >>)
    ELSE IF v.isPR THEN
        IsPRError("false", "issues")
    ELSE IF ~Truthy(v.defaultBranch) THEN
        RequiredError("DEFAULT_BRANCH", "issues", << >>)
    ELSE IF ~Truthy(v.claudeBranch) THEN
        RequiredError("CLAUDE_BRANCH", "issues", << >>)
    ELSE IssuesActionCase(v)

\* Lines 267-282.  eventAction is a plain property: the key is always there.
PullRequestCase(v) ==
    IF ~Truthy(v.prNumber) THEN
        RequiredError("PR_NUMBER", "pull_request", << >>)
    ELSE IF ~v.isPR THEN
        IsPRError("true", "pull_request")
    ELSE Return(
        [eventName |-> "pull_request",
         eventAction |-> v.eventAction,
         isPR |-> TRUE,
         prNumber |-> v.prNumber]
        @@ BranchSpread(v))

\* Mutant: an unknown event name yields a bare record instead of an error.
EventDataOf_AcceptsUnknown(v) ==
    CASE v.eventName = "pull_request_review_comment" ->
            PullRequestReviewCommentCase(v)
      [] v.eventName = "pull_request_review" -> PullRequestReviewCase(v)
      [] v.eventName = "issue_comment" -> IssueCommentCase(v)
      [] v.eventName = "issues" -> IssuesCase(v)
      [] v.eventName = "pull_request" -> PullRequestCase(v)
      [] OTHER -> Return([eventName |-> v.eventName, isPR |-> v.isPR])

\* Lines 126-286: the switch on the event name.
EventDataOf(v) ==
    CASE v.eventName = "pull_request_review_comment" ->
            PullRequestReviewCommentCase(v)
      [] v.eventName = "pull_request_review" -> PullRequestReviewCase(v)
      [] v.eventName = "issue_comment" -> IssueCommentCase(v)
      [] v.eventName = "issues" -> IssuesCase(v)
      [] v.eventName = "pull_request" -> PullRequestCase(v)
      [] OTHER -> Throw(<<"Unsupported event type: ", v.eventName>>)

prepareContext(ctx) ==
    LET trig == ExtractTriggerData(ctx)
        v == [eventName |-> ctx.eventName,
              eventAction |-> ctx.eventAction,
              isPR |-> ctx.isPR,
              prNumber |-> PrNumberOf(ctx),
              issueNumber |-> IssueNumberOf(ctx),
              commentId |-> trig.commentId,
              commentBody |-> trig.commentBody,
              assigneeTrigger |-> ctx.inputs.assigneeTrigger,
              claudeBranch |-> ctx.claudeBranch,
              defaultBranch |-> ctx.defaultBranch]
        eventData == EventDataOf(v)
    IN  IF eventData.ok
        THEN Return(CommonFieldsOf(ctx, trig.triggerUsername)
                    @@ ("eventData" :> eventData.value))
        ELSE eventData

-----------------------------------------------------------------------------
(* Event classifier *)

\* A property read: undefined when the object has no such key.
Get(obj, k) == IF Has(obj, k) THEN obj[k] ELSE Undefined

\* `${v}` in a template literal: undefined prints as "undefined".
Interp(v) == IF v = Undefined THEN <<"undefined">> ELSE StrOf(v)

getEventTypeAndContext(envVars) ==
    LET eventData == envVars["eventData"]
        phrase == Interp(Get(envVars, "triggerPhrase"))
    IN  CASE eventData.eventName = "pull_request_review_comment" ->
               Return([eventType |-> "REVIEW_COMMENT",
                       triggerContext |->
                           <<"PR review comment with '">> \o phrase \o <<"'">>])
          [] eventData.eventName = "pull_request_review" ->
               Return([eventType |-> "PR_REVIEW",
                       triggerContext |->
                           <<"PR review with '">> \o phrase \o <<"'">>])
          [] eventData.eventName = "issue_comment" ->
               Return([eventType |-> "GENERAL_COMMENT",
                       triggerContext |->
                           <<"issue comment with '">> \o phrase \o <<"'">>])
          [] eventData.eventName = "issues" ->
               IF Get(eventData, "eventAction") = Some(<<"opened">>)
               THEN Return([eventType |-> "ISSUE_CREATED",
                            triggerContext |->
                                <<"new issue with '">> \o phrase
                                \o <<"' in body">>])
               ELSE Return([eventType |-> "ISSUE_ASSIGNED",
                            triggerContext |->
                                <<"issue assigned to '">>
                                \o Interp(Get(eventData, "assigneeTrigger"))
                                \o <<"'">>])
          [] eventData.eventName = "pull_request" ->
               Return([eventType |-> "PULL_REQUEST",
                       triggerContext |->
                           IF Truthy(Get(eventData, "eventAction"))
                           THEN <<"pull request ">>
                                \o StrOf(eventData["eventAction"])
                           ELSE <<"pull request event">>])
          [] OTHER -> Throw(<<"Unexpected event type">>)

-----------------------------------------------------------------------------
(* Document assembler *)

NL == "\n"

GITHUB_SERVER_URL == <<"https://github.com">>

\* stripHtmlComments of ../github/data/formatter: every "<!--" ... "-->" run
\* is removed; an unclosed "<!--" stays.
RECURSIVE AfterClose(_)
AfterClose(s) ==
    IF s = << >> THEN << >>
    ELSE IF Head(s) = "-->" THEN Tail(s)
    ELSE AfterClose(Tail(s))

RECURSIVE stripHtmlComments(_)
stripHtmlComments(s) ==
    IF s = << >> THEN << >>
    ELSE IF Head(s) = "<!--" /\ Contains(Tail(s), "-->")
         THEN stripHtmlComments(AfterClose(Tail(s)))
    ELSE << Head(s) >> \o stripHtmlComments(Tail(s))

\* String.prototype.split("/")[i] (i counted from 0) as a `${}` value.
RECURSIVE SplitSlash(_, _)
SplitSlash(s, cur) ==
    IF s = << >> THEN << cur >>
    ELSE IF Head(s) = "/" THEN << cur >> \o SplitSlash(Tail(s), << >>)
    ELSE SplitSlash(Tail(s), Append(cur, Head(s)))

SplitPart(s, i) ==
    LET parts == SplitSlash(s, << >>)
    IN  IF i + 1 <= Len(parts) THEN Some(parts[i + 1]) ELSE Undefined

IsCommentKind(eventData) ==
    eventData.eventName \in
        {"issue_comment", "pull_request_review_comment", "pull_request_review"}

\* Lines 361-366: the PR-only formatted sections.
FormattedReviewCommentsOf(eventData, gd) ==
    IF eventData.isPR THEN gd.formattedReviewComments ELSE << >>

FormattedChangedFilesOf(eventData, gd) ==
    IF eventData.isPR THEN gd.formattedChangedFiles ELSE << >>

\* Lines 369-376.
ImagesInfo(gd) ==
    IF gd.imageUrlMapSize > 0
    THEN <<NL, NL, "<images_info>", NL, "[images were downloaded to disk]",
           NL, "</images_info>">>
    ELSE << >>

\* Lines 378-380.
FormattedBodyOf(gd) ==
    IF Truthy(gd.body) THEN gd.formattedBody
    ELSE <<"[no description provided]">>

\* Mutant: an issue gets a "not applicable" placeholder.
ReviewCommentsBody_PlaceholderForIssues(eventData, gd) ==
    IF eventData.isPR
    THEN IF FormattedReviewCommentsOf(eventData, gd) # << >>
         THEN FormattedReviewCommentsOf(eventData, gd)
         ELSE <<"[no review comments]">>
    ELSE <<"[not applicable]">>

\* Line 397.
ReviewCommentsBody(eventData, gd) ==
    IF eventData.isPR
    THEN IF FormattedReviewCommentsOf(eventData, gd) # << >>
         THEN FormattedReviewCommentsOf(eventData, gd)
         ELSE <<"[no review comments]">>
    ELSE << >>

\* Line 401.
ChangedFilesBody(eventData, gd) ==
    IF eventData.isPR
    THEN IF FormattedChangedFilesOf(eventData, gd) # << >>
         THEN FormattedChangedFilesOf(eventData, gd)
         ELSE <<"[no changed files]">>
    ELSE << >>

\* Lines 382-402.
ContextSections(eventData, gd) ==
    <<"[you are Claude, an assistant for issues and pull requests]", NL, NL,
      "<formatted_context>", NL>> \o gd.formattedContext
    \o <<NL, "</formatted_context>", NL, NL, "<pr_or_issue_body>", NL>>
    \o FormattedBodyOf(gd)
    \o <<NL, "</pr_or_issue_body>", NL, NL, "<comments>", NL>>
    \o (IF gd.formattedComments # << >> THEN gd.formattedComments
        ELSE <<"[no comments]">>)
    \o <<NL, "</comments>", NL, NL, "<review_comments>", NL>>
    \o ReviewCommentsBody(eventData, gd)
    \o <<NL, "</review_comments>", NL, NL, "<changed_files>", NL>>
    \o ChangedFilesBody(eventData, gd)
    \o <<NL, "</changed_files>">>
    \o ImagesInfo(gd)

\* Lines 404-415.
MetadataBlock(prepCtx, eventData, classification) ==
    <<NL, NL, "<event_type>", classification.eventType, "</event_type>", NL,
      "<is_pr>", IF eventData.isPR THEN "true" ELSE "false", "</is_pr>", NL,
      "<trigger_context>">> \o classification.triggerContext
    \o <<"</trigger_context>", NL, "<repository>">>
    \o Interp(Get(prepCtx, "repository")) \o <<"</repository>", NL>>
    \o (IF eventData.isPR
        THEN <<"<pr_number>">> \o Interp(Get(eventData, "prNumber"))
             \o <<"</pr_number>">>
        ELSE <<"<issue_number>">>
             \o StrOf(Nullish(Get(eventData, "issueNumber"), << >>))
             \o <<"</issue_number>">>)
    \o <<NL, "<claude_comment_id>">>
    \o Interp(Get(prepCtx, "claudeCommentId"))
    \o <<"</claude_comment_id>", NL, "<trigger_username>">>
    \o StrOf(Nullish(Get(prepCtx, "triggerUsername"), <<"Unknown">>))
    \o <<"</trigger_username>", NL, "<trigger_phrase>">>
    \o Interp(Get(prepCtx, "triggerPhrase"))
    \o <<"</trigger_phrase>", NL>>

\* Lines 416-425.
TriggerCommentBlock(eventData) ==
    IF IsCommentKind(eventData) /\ Truthy(Get(eventData, "commentBody"))
    THEN <<"<trigger_comment>", NL>>
         \o stripHtmlComments(StrOf(eventData["commentBody"]))
         \o <<NL, "</trigger_comment>">>
    ELSE << >>

\* Mutant: the block is rendered whenever the key is there or not, with an
\* empty text for an absent direct prompt.
DirectPromptBlock_Always(prepCtx) ==
    <<"<direct_prompt>", NL>>
    \o stripHtmlComments(StrOf(Nullish(Get(prepCtx, "directPrompt"), << >>)))
    \o <<NL, "</direct_prompt>">>

\* Lines 426-432.
DirectPromptBlock(prepCtx) ==
    IF Truthy(Get(prepCtx, "directPrompt"))
    THEN <<"<direct_prompt>", NL>>
         \o stripHtmlComments(StrOf(prepCtx["directPrompt"]))
         \o <<NL, "</direct_prompt>">>
    ELSE << >>

\* Lines 433-459.
CommentToolInfo(prepCtx, eventData) ==
    LET repo == StrOf(prepCtx["repository"])
        owner == Interp(SplitPart(repo, 0))
        name == Interp(SplitPart(repo, 1))
        id == IF eventData.eventName = "pull_request_review_comment"
              THEN IF Truthy(Get(eventData, "commentId"))
                   THEN StrOf(eventData["commentId"])
                   ELSE Interp(Get(prepCtx, "claudeCommentId"))
              ELSE Interp(Get(prepCtx, "claudeCommentId"))
        tool == IF eventData.eventName = "pull_request_review_comment"
                THEN UpdatePRComment ELSE UpdateIssueComment
    IN  <<"<comment_tool_info>", NL, "[only this tool is provided: ", tool,
          "]", NL, NL, "[usage example of ", tool, "]", NL,
          "{ owner: ">> \o owner \o <<", repo: ">> \o name
        \o <<", commentId: ">> \o id
        \o <<", body: [comment text] }", NL,
             "[all four parameters are required]", NL,
             "</comment_tool_info>">>

\* The comment tool the to-do procedure (line 473) and the closing notes
\* (line 562) name.
ProcedureToolOf(eventData) ==
    IF eventData.eventName = "pull_request_review_comment"
    THEN UpdatePRComment ELSE UpdateIssueComment

\* Lines 461-466.
TaskIntro(eventData) ==
    <<NL, NL, "[your task: analyze the context and respond or implement]",
      NL, NL, "[important clarifications]", NL,
      "[- asked to review: give feedback, do not implement]">>
    \o (IF eventData.isPR
        THEN <<NL, "[- PR reviews: updating the comment posts the review]">>
        ELSE << >>)
    \o <<NL, "[- console output is not visible to the user]", NL,
         "[- all communication goes through GitHub comments]", NL>>

\* Lines 468-473.
StepTodo(eventData) ==
    <<NL, "[follow these steps]", NL, NL, "[1. create a to-do list]", NL,
      "[- update the comment after each task using ",
      ProcedureToolOf(eventData), "]", NL>>

\* Lines 475-484.
StepGather(prepCtx, eventData) ==
    <<NL, "[2. gather context]", NL,
      "[- ISSUE_CREATED: read the issue body after the trigger phrase]", NL,
      "[- ISSUE_ASSIGNED: read the whole issue body]", NL>>
    \o (IF IsCommentKind(eventData)
        THEN <<"[- comment/review events: your instructions are in the ",
               "<trigger_comment>", " tag above]">>
        ELSE << >>)
    \o <<NL>>
    \o (IF Truthy(Get(prepCtx, "directPrompt"))
        THEN <<"[- direct instruction: shown in the ", "<direct_prompt>",
               " tag above]">>
        ELSE << >>)
    \o <<NL, "[- only comments containing '">>
    \o Interp(Get(prepCtx, "triggerPhrase"))
    \o <<"' instruct you]", NL, "[- use the Read tool; check the box]", NL>>

\* Lines 486-493.
StepUnderstand(prepCtx, eventData) ==
    <<NL, "[3. understand the request]", NL, "[- extract the request from ">>
    \o (IF Truthy(Get(prepCtx, "directPrompt"))
        THEN <<"the ", "<direct_prompt>", " tag above">>
        ELSE IF IsCommentKind(eventData)
        THEN <<"the ", "<trigger_comment>", " tag above">>
        ELSE <<"comments containing '">>
             \o Interp(Get(prepCtx, "triggerPhrase")) \o <<"'">>)
    \o <<"]", NL, "[- follow only the trigger comment; read CLAUDE.md]", NL>>

\* Lines 495-507.
StepAnswer(eventData) ==
    <<NL, "[4. take action]", NL, NL, "[A. answering and code review]", NL,
      "[- reference code sections by file path and line number]">>
    \o (IF eventData.isPR
        THEN <<NL, "[- after reading the files you must call ",
               UpdateIssueComment, " to post the review]">>
        ELSE << >>)
    \o <<NL, "[- write a concise, technical response]", NL>>
    \o (IF eventData.isPR
        THEN <<"[- update the Claude comment to send the review feedback]">>
        ELSE <<"[- remember to post this feedback to the GitHub comment]">>)
    \o <<NL>>

\* Mutant: the compare range of the link is written with two dots.
PrLinkGuidance_TwoDots(prepCtx, eventData) ==
    IF Truthy(Get(eventData, "claudeBranch"))
    THEN <<"[- provide a URL to create a PR manually:]", NL, "[Create PR](">>
         \o GITHUB_SERVER_URL \o <<"/">>
         \o Interp(Get(prepCtx, "repository")) \o <<"/compare/">>
         \o Interp(Get(eventData, "defaultBranch"))
         \o <<"..", "<branch-name>",
              "?quick_pull=1&title=<url-encoded-title>&body=<url-encoded-body>)",
              NL, "[- target-branch should be '">>
         \o Interp(Get(eventData, "defaultBranch"))
         \o <<"']", NL, "[- branch-name is the current branch: ">>
         \o StrOf(eventData["claudeBranch"])
         \o <<"]">>
    ELSE << >>

\* Lines 524-541: the pull-request-creation link, only with a working branch.
PrLinkGuidance(prepCtx, eventData) ==
    IF Truthy(Get(eventData, "claudeBranch"))
    THEN <<"[- provide a URL to create a PR manually:]", NL, "[Create PR](">>
         \o GITHUB_SERVER_URL \o <<"/">>
         \o Interp(Get(prepCtx, "repository")) \o <<"/compare/">>
         \o Interp(Get(eventData, "defaultBranch"))
         \o <<"...", "<branch-name>",
              "?quick_pull=1&title=<url-encoded-title>&body=<url-encoded-body>)",
              NL, "[- use three dots (...) between branch names, not two]", NL,
              "[example: ">>
         \o GITHUB_SERVER_URL \o <<"/">>
         \o Interp(Get(prepCtx, "repository"))
         \o <<"/compare/", "main", "...", "feature-branch", " (correct)]", NL,
              "[not: ">>
         \o GITHUB_SERVER_URL \o <<"/">>
         \o Interp(Get(prepCtx, "repository"))
         \o <<"/compare/", "main", "..", "feature-branch", " (wrong)]", NL,
              "[- encode all URL parameters, spaces as %20]", NL,
              "[- target-branch should be '">>
         \o Interp(Get(eventData, "defaultBranch"))
         \o <<"']", NL, "[- branch-name is the current branch: ">>
         \o StrOf(eventData["claudeBranch"])
         \o <<"]", NL, "[- the body references the original ",
              IF eventData.isPR THEN "PR" ELSE "issue", "]", NL,
              "[- include only the markdown link]">>
    ELSE << >>

\* Lines 509-542.
StepSimpleChanges(prepCtx, eventData) ==
    <<NL, "[B. simple changes]", NL, "[- make the changes locally]", NL>>
    \o (IF eventData.isPR /\ ~Truthy(Get(eventData, "claudeBranch"))
        THEN <<NL, "[- push directly to the existing branch using ",
               "mcp__github_file_ops__commit_files", "]", NL,
               "[- Co-authored-by: ">>
             \o Interp(Get(prepCtx, "triggerUsername")) \o <<"]">>
        ELSE <<NL, "[- you are already on the correct branch (">>
             \o OrElse(Get(eventData, "claudeBranch"), <<"[the PR branch]">>)
             \o <<"); do not create a new branch]", NL,
                  "[- push changes to the current branch using ",
                  "mcp__github_file_ops__commit_files", "]", NL,
                  "[- Co-authored-by: ">>
             \o Interp(Get(prepCtx, "triggerUsername")) \o <<"]", NL>>
             \o PrLinkGuidance(prepCtx, eventData))
    \o <<NL>>

\* Lines 544-558.
StepComplexAndFinal(eventData) ==
    <<NL, "[C. complex changes: same push strategy as section B]", NL, NL,
      "[5. final update: always update the GitHub comment]", NL>>
    \o (IF Truthy(Get(eventData, "claudeBranch"))
        THEN <<"[- the comment must include the PR URL described above]">>
        ELSE << >>)
    \o <<NL>>

\* Lines 560-574.
ImportantNotes(prepCtx, eventData) ==
    <<NL, "[important notes]", NL,
      "[- never create new comments; update the existing comment only,",
      " comment_id: ">>
    \o Interp(Get(prepCtx, "claudeCommentId"))
    \o <<" using ", ProcedureToolOf(eventData), "]", NL,
         "[- this includes all responses]">>
    \o (IF eventData.isPR
        THEN <<NL, "[- PR important: after reading files you must call ",
               UpdateIssueComment, " to post]">>
        ELSE << >>)
    \o <<NL, "[- communicate only by editing the single comment]", NL>>
    \o (IF eventData.isPR /\ ~Truthy(Get(eventData, "claudeBranch"))
        THEN <<"[- always push to the existing branch when triggered on a PR]">>
        ELSE <<"[- you are already on the correct branch (">>
             \o OrElse(Get(eventData, "claudeBranch"), <<"[the created branch]">>)
             \o <<"); never create a new branch]">>)
    \o <<NL, "[- use ", "mcp__github_file_ops__commit_files", " and ",
         "mcp__github_file_ops__delete_files", " or ",
         "mcp__github__delete_file", "]", NL>>

\* Lines 576-607.
Capabilities ==
    <<NL, "[capabilities and limitations]", NL,
      "[before acting, write your analysis in <analysis> tags]", NL>>

\* Lines 609-611.
CustomInstructionsAppendix(prepCtx) ==
    IF Truthy(Get(prepCtx, "customInstructions"))
    THEN <<NL, NL, "[custom instructions:]", NL>>
         \o StrOf(prepCtx["customInstructions"])
    ELSE << >>

generatePrompt(prepCtx, gd) ==
    LET eventData == prepCtx["eventData"]
        classified == getEventTypeAndContext(prepCtx)
    IN  IF ~classified.ok THEN classified
        ELSE Return(
            ContextSections(eventData, gd)
            \o MetadataBlock(prepCtx, eventData, classified.value)
            \o TriggerCommentBlock(eventData)
            \o <<NL>>
            \o DirectPromptBlock(prepCtx)
            \o <<NL>>
            \o CommentToolInfo(prepCtx, eventData)
            \o TaskIntro(eventData)
            \o StepTodo(eventData)
            \o StepGather(prepCtx, eventData)
            \o StepUnderstand(prepCtx, eventData)
            \o StepAnswer(eventData)
            \o StepSimpleChanges(prepCtx, eventData)
            \o StepComplexAndFinal(eventData)
            \o ImportantNotes(prepCtx, eventData)
            \o Capabilities
            \o CustomInstructionsAppendix(prepCtx))

-----------------------------------------------------------------------------
(* Inputs *)

\* The largest entity number (issue or PR number) tried; 0 is tried too.
MaxEntityNumber == 12

\* The largest number of entries of the fetched image mapping.
MaxImages == 1

\* The longest caller-supplied extra tool string, in atoms.
MaxExtraLen == 2

EventNames ==
    {"pull_request_review_comment", "pull_request_review", "issue_comment",
     "issues", "pull_request", "push"}

CommentEventNames ==
    {"pull_request_review_comment", "pull_request_review", "issue_comment"}

\* A `string | undefined` input is tried absent ("U"), empty ("E") and with
\* a text ("T").
Shapes == {"U", "E", "T"}

\* The runs that go on to assemble the document try the optional strings
\* absent and with a text; the event action is tried empty there too.
PipelineShapes == {"U", "T"}

Shaped(shape, text) ==
    CASE shape = "U" -> Undefined
      [] shape = "E" -> Some(<< >>)
      [] OTHER -> Some(text)

BodyText == <<"@claude fix the bug", "<!--", "hidden", "-->">>

DirectPromptText == <<"<!--", "note", "-->", "add tests">>

EventActions ==
    {Undefined, Some(<< >>), Some(<<"assigned">>), Some(<<"opened">>),
     Some(<<"labeled">>)}

\* The configuration strings and the payload author.  They are read
\* independently of each other, so they are tried with at most one of them
\* differing in shape from the others.
ConfigFields ==
    {"login", "triggerPhrase", "customInstructions", "allowedTools",
     "disallowedTools", "directPrompt"}

ConfigShapes(shapes) ==
    {[k \in ConfigFields |-> IF k = d THEN x ELSE b] :
        b \in shapes, d \in ConfigFields, x \in shapes}

\* The payload fields an event kind carries and the inputs its branch reads:
\* only comment and review payloads have a body, only an issues or
\* pull_request payload has a varying action (a comment is "created").
PayloadsOf(eventName, shapes) ==
    IF eventName \in CommentEventNames
    THEN [action : {Some(<<"created">>)},
          body : {Shaped(x, BodyText) : x \in shapes},
          assignee : {Undefined}]
    ELSE IF eventName = "issues"
    THEN [action : EventActions, body : {Undefined},
          assignee : {Shaped(x, <<"bob">>) : x \in shapes}]
    ELSE IF eventName = "pull_request"
    THEN [action : EventActions, body : {Undefined}, assignee : {Undefined}]
    ELSE [action : {Some(<<"created">>)}, body : {Undefined},
          assignee : {Undefined}]

ContextOf(eventName, isPR, n, p, cfg, db, cb) ==
    [repository |-> <<"owner", "/", "repo">>,
     eventName |-> eventName,
     eventAction |-> p.action,
     isPR |-> isPR,
     entityNumber |-> n,
     payload |-> [id |-> 55, body |-> p.body,
                  login |-> Shaped(cfg["login"], <<"alice">>)],
     inputs |-> [triggerPhrase |-> Shaped(cfg["triggerPhrase"], <<"@bot">>),
                 assigneeTrigger |-> p.assignee,
                 customInstructions |->
                     Shaped(cfg["customInstructions"], <<"be brief">>),
                 allowedTools |-> Shaped(cfg["allowedTools"], <<"Bash">>),
                 disallowedTools |-> Shaped(cfg["disallowedTools"], <<"Task">>),
                 directPrompt |-> Shaped(cfg["directPrompt"], DirectPromptText)],
     claudeCommentId |-> 99,
     defaultBranch |-> Shaped(db, <<"main">>),
     claudeBranch |-> Shaped(cb, <<"claude/issue-12">>)]

\* c is one of the raw trigger contexts tried over the given shapes.
IsContextOver(c, shapes) ==
    \E e \in EventNames :
        \E isPR \in BOOLEAN, n \in {0, MaxEntityNumber},
           p \in PayloadsOf(e, shapes), cfg \in ConfigShapes(shapes),
           db \in shapes, cb \in shapes :
            c = ContextOf(e, isPR, n, p, cfg, db, cb)

\* The fetched data bag: the formatter results are opaque strings, tried
\* empty and non-empty; the issue/PR body and the comment thread are tried
\* both missing or both there.
GithubDatas ==
    {[formattedContext |-> <<"[formatted context]">>,
      body |-> IF hasBody THEN Some(<<"[raw body]">>) ELSE Undefined,
      formattedBody |-> <<"[formatted body]">>,
      formattedComments |->
          IF hasBody THEN <<"[formatted comments]">> ELSE << >>,
      formattedReviewComments |->
          IF hasReview THEN <<"[formatted review comments]">> ELSE << >>,
      formattedChangedFiles |->
          IF hasFiles THEN <<"[formatted changed files]">> ELSE << >>,
      imageUrlMapSize |-> images] :
        hasBody \in BOOLEAN, hasReview \in BOOLEAN, hasFiles \in BOOLEAN,
        images \in 0..MaxImages}

\* Atoms of a caller-supplied extra tool string.
ExtraAtoms == {",", "Bash", UpdateIssueComment, UpdatePRComment}

RECURSIVE StringsUpTo(_)
StringsUpTo(n) ==
    IF n = 0 THEN {<< >>}
    ELSE StringsUpTo(n - 1)
         \cup {Append(s, a) : s \in StringsUpTo(n - 1), a \in ExtraAtoms}

ExtraStrings == {Undefined} \cup {Some(s) : s \in StringsUpTo(MaxExtraLen)}

-----------------------------------------------------------------------------
(* createPrompt, lines 616-659, one action per step *)

None == [ok |-> FALSE, error |-> <<"[not called]">>]

NoData == [formattedContext |-> << >>]

NoArgs == [eventName |-> "", custom |-> Undefined]

NoResult == [fn |-> "", value |-> << >>]

\* No call of autoRefreshTokensIfNeeded is under way.
NoTokenArgs == [accessToken |-> << >>]

NoResponse == [ok |-> FALSE, status |-> "[none]"]

NoError == << >>

TokenIdle ==
    /\ tokenPc = "idle"
    /\ tokenArgs = NoTokenArgs
    /\ requests = << >>
    /\ response = NoResponse
    /\ thrown = NoError
    /\ tokenResult = None

Init ==
    /\ pc = "start"
    /\ IsContextOver(context, PipelineShapes)
    /\ githubData = NoData
    /\ prepared = None
    /\ prompt = None
    /\ promptFile = Undefined
    /\ exported = << >>
    /\ failed = FALSE
    /\ exitCode = Undefined
    /\ toolArgs = NoArgs
    /\ toolResult = NoResult
    /\ TokenIdle

\* Lines 624-629: a throw of prepareContext lands in the catch block.
PrepareContext ==
    /\ pc = "start"
    /\ prepared' = prepareContext(context)
    /\ pc' = IF prepared'.ok THEN "prepared" ELSE "caught"
    /\ UNCHANGED <<context, githubData, prompt, promptFile, exported, failed,
                   exitCode, toolArgs, toolResult>>
    /\ UNCHANGED tokenVars

\* Line 631: mkdir resolves or rejects.
Mkdir ==
    /\ pc = "prepared"
    /\ \E resolves \in BOOLEAN :
           pc' = IF resolves THEN "mkdir" ELSE "caught"
    /\ UNCHANGED <<context, githubData, prepared, prompt, promptFile,
                   exported, failed, exitCode, toolArgs, toolResult>>
    /\ UNCHANGED tokenVars

\* Lines 634-639.  The data bag was fetched by the caller; the model fixes
\* its content where createPrompt first reads it.
GeneratePrompt ==
    /\ pc = "mkdir"
    /\ \E gd \in GithubDatas :
           /\ githubData' = gd
           /\ prompt' = generatePrompt(prepared.value, gd)
    /\ pc' = IF prompt'.ok THEN "generated" ELSE "caught"
    /\ UNCHANGED <<context, prepared, promptFile, exported, failed, exitCode,
                   toolArgs, toolResult>>
    /\ UNCHANGED tokenVars

\* Mutant: a rejected writeFile is ignored and the run goes on to the exports.
WriteFile_IgnoresReject ==
    /\ pc = "generated"
    /\ \E resolves \in BOOLEAN :
           IF resolves
           THEN pc' = "written" /\ promptFile' = Some(prompt.value)
           ELSE pc' = "written" /\ UNCHANGED promptFile
    /\ UNCHANGED <<context, githubData, prepared, prompt, exported, failed,
                   exitCode, toolArgs, toolResult>>
    /\ UNCHANGED tokenVars

\* Line 642: writeFile resolves, with the file written, or rejects.
WriteFile ==
    /\ pc = "generated"
    /\ \E resolves \in BOOLEAN :
           IF resolves
           THEN pc' = "written" /\ promptFile' = Some(prompt.value)
           ELSE pc' = "caught" /\ UNCHANGED promptFile
    /\ UNCHANGED <<context, githubData, prepared, prompt, exported, failed,
                   exitCode, toolArgs, toolResult>>
    /\ UNCHANGED tokenVars

\* Lines 645-653.
ExportAllowedTools ==
    /\ pc = "written"
    /\ exported' = Append(exported,
           [name |-> "ALLOWED_TOOLS",
            value |-> buildAllowedToolsString(
                          prepared.value["eventData"],
                          Get(prepared.value, "allowedTools"))])
    /\ pc' = "allowed"
    /\ UNCHANGED <<context, githubData, prepared, prompt, promptFile, failed,
                   exitCode, toolArgs, toolResult>>
    /\ UNCHANGED tokenVars

\* Lines 649-654.
ExportDisallowedTools ==
    /\ pc = "allowed"
    /\ exported' = Append(exported,
           [name |-> "DISALLOWED_TOOLS",
            value |-> buildDisallowedToolsString(
                          Get(prepared.value, "disallowedTools"))])
    /\ pc' = "done"
    /\ UNCHANGED <<context, githubData, prepared, prompt, promptFile, failed,
                   exitCode, toolArgs, toolResult>>
    /\ UNCHANGED tokenVars

\* Line 656.
SetFailed ==
    /\ pc = "caught"
    /\ failed' = TRUE
    /\ pc' = "failed"
    /\ UNCHANGED <<context, githubData, prepared, prompt, promptFile,
                   exported, exitCode, toolArgs, toolResult>>
    /\ UNCHANGED tokenVars

\* Line 657.
Exit ==
    /\ pc = "failed"
    /\ exitCode' = Some(<<"1">>)
    /\ pc' = "exited"
    /\ UNCHANGED <<context, githubData, prepared, prompt, promptFile,
                   exported, failed, toolArgs, toolResult>>
    /\ UNCHANGED tokenVars

Next ==
    \/ PrepareContext
    \/ Mkdir
    \/ GeneratePrompt
    \/ WriteFile
    \/ ExportAllowedTools
    \/ ExportDisallowedTools
    \/ SetFailed
    \/ Exit

Spec == Init /\ [][Next]_vars

\* Lines 655-658: the catch block runs to its end once it is entered;
\* core.setFailed and process.exit are synchronous calls.
SpecCatch == Spec /\ WF_vars(SetFailed) /\ WF_vars(Exit)

-----------------------------------------------------------------------------
(* prepareContext alone, on every raw trigger context *)

InitNormalize ==
    /\ pc = "start"
    /\ IsContextOver(context, Shapes)
    /\ githubData = NoData
    /\ prepared = None
    /\ prompt = None
    /\ promptFile = Undefined
    /\ exported = << >>
    /\ failed = FALSE
    /\ exitCode = Undefined
    /\ toolArgs = NoArgs
    /\ toolResult = NoResult
    /\ TokenIdle

NextNormalize == PrepareContext

SpecNormalize == InitNormalize /\ [][NextNormalize]_vars

-----------------------------------------------------------------------------
(* Direct calls of the capability set builders, with any extra string *)

InitTools ==
    /\ pc = "tools"
    /\ context = [eventName |-> ""]
    /\ githubData = NoData
    /\ prepared = None
    /\ prompt = None
    /\ promptFile = Undefined
    /\ exported = << >>
    /\ failed = FALSE
    /\ exitCode = Undefined
    /\ toolArgs \in [eventName : EventNames, custom : ExtraStrings]
    /\ toolResult = NoResult
    /\ TokenIdle

CallBuildAllowedTools ==
    /\ pc = "tools"
    /\ toolResult' =
           [fn |-> "buildAllowedToolsString",
            value |-> buildAllowedToolsString(
                          [eventName |-> toolArgs.eventName], toolArgs.custom)]
    /\ pc' = "returned"
    /\ UNCHANGED <<context, githubData, prepared, prompt, promptFile,
                   exported, failed, exitCode, toolArgs>>
    /\ UNCHANGED tokenVars

CallBuildDisallowedTools ==
    /\ pc = "tools"
    /\ toolResult' =
           [fn |-> "buildDisallowedToolsString",
            value |-> buildDisallowedToolsString(toolArgs.custom)]
    /\ pc' = "returned"
    /\ UNCHANGED <<context, githubData, prepared, prompt, promptFile,
                   exported, failed, exitCode, toolArgs>>
    /\ UNCHANGED tokenVars

NextTools == CallBuildAllowedTools \/ CallBuildDisallowedTools

SpecTools == InitTools /\ [][NextTools]_vars

-----------------------------------------------------------------------------
(* OAuth token refresh, lines 686-760, one action per step *)

\* The largest clock reading, in milliseconds, at the call.
MaxClock == 360000

\* The largest lifetime, in seconds, a token response grants.
MaxExpiresIn == 3600

\* The longest time, in milliseconds, from the call to the parsed response.
MaxRequestMillis == 2000

\* Line 739: the default of bufferMinutes.
DefaultBufferMinutes == 5

\* parseInt of a string of decimal digits.
RECURSIVE ParseInt(_)
ParseInt(s) ==
    IF s = << >> THEN 0
    ELSE 10 * ParseInt(SubSeq(s, 1, Len(s) - 1))
         + (CHOOSE d \in 0..9 : Digit[d + 1] = s[Len(s)])

\* isTokenExpired of ./token-validator: the token expires within the buffer
\* (lines 728-732: "expired or expiring soon", "minutes before expiration").
isTokenExpired(expiresAt, bufferMinutes, now) ==
    now + bufferMinutes * 60 * 1000 >= ParseInt(expiresAt)

\* The arguments of autoRefreshTokensIfNeeded and the clock at the call.
TokenCalls ==
    [accessToken : {<<"access-1">>, <<"access-2">>},
     refreshToken : {<<"refresh-1">>, <<"refresh-2">>},
     expiresAt : {NumberToString(600000), NumberToString(1200000)},
     bufferMinutes : {DefaultBufferMinutes, 15},
     now : {0, MaxClock}]

\* The body of a TokenResponse (lines 667-672); a provider may leave the
\* refresh token out or empty.
TokenResponses ==
    [access_token : {<<"access-new">>},
     refresh_token : {Undefined, Some(<< >>), Some(<<"refresh-new">>)},
     expires_in : {60, MaxExpiresIn}]

\* What fetch resolves with: a refusal, a success whose body is not JSON, or
\* a success with a token response.
Responses ==
    {[ok |-> FALSE, status |-> "401", body |-> [kind |-> "text"]],
     [ok |-> TRUE, status |-> "200", body |-> [kind |-> "garbage"]]}
    \cup {[ok |-> TRUE, status |-> "200",
           body |-> [kind |-> "json", data |-> d]] : d \in TokenResponses}

\* Lines 716-720, then 751-754: the refreshed values with wasRefreshed true.
RefreshedTokenInfo(data, refreshToken, dateNow) ==
    [accessToken |-> data.access_token,
     refreshToken |-> OrElse(data.refresh_token, refreshToken),
     expiresAt |-> NumberToString(dateNow + data.expires_in * 1000)]

\* Lines 744 and 758: the caller's own values with wasRefreshed false.
OriginalTokens ==
    [accessToken |-> tokenArgs.accessToken,
     refreshToken |-> tokenArgs.refreshToken,
     expiresAt |-> tokenArgs.expiresAt,
     wasRefreshed |-> FALSE]

InitRefresh ==
    /\ pc = "token"
    /\ context = [eventName |-> ""]
    /\ githubData = NoData
    /\ prepared = None
    /\ prompt = None
    /\ promptFile = Undefined
    /\ exported = << >>
    /\ failed = FALSE
    /\ exitCode = Undefined
    /\ toolArgs = NoArgs
    /\ toolResult = NoResult
    /\ tokenPc = "entry"
    /\ tokenArgs \in TokenCalls
    /\ requests = << >>
    /\ response = NoResponse
    /\ thrown = NoError
    /\ tokenResult = None

\* Lines 742-745: a token that is still valid is returned as it is.
CheckExpired ==
    /\ tokenPc = "entry"
    /\ IF ~isTokenExpired(tokenArgs.expiresAt, tokenArgs.bufferMinutes,
                          tokenArgs.now)
       THEN /\ tokenResult' = Return(OriginalTokens)
            /\ tokenPc' = "returned"
       ELSE /\ tokenPc' = "refresh"
            /\ UNCHANGED tokenResult
    /\ UNCHANGED <<tokenArgs, requests, response, thrown>>
    /\ UNCHANGED promptVars

\* Lines 693-702: the request is sent; fetch rejects or resolves.
Fetch ==
    /\ tokenPc = "refresh"
    /\ requests' = Append(requests, [grant_type |-> "refresh_token",
                                     refresh_token |-> tokenArgs.refreshToken])
    /\ \/ /\ thrown' = <<"fetch failed">>
          /\ tokenPc' = "refreshCatch"
          /\ UNCHANGED response
       \/ /\ response' \in Responses
          /\ tokenPc' = "response"
          /\ UNCHANGED thrown
    /\ UNCHANGED <<tokenArgs, tokenResult>>
    /\ UNCHANGED promptVars

\* Lines 704-707: a response that is not ok is turned into an error, be its
\* text read or not.
CheckResponseOk ==
    /\ tokenPc = "response"
    /\ IF ~response.ok
       THEN /\ \E textRead \in BOOLEAN :
                   thrown' = IF textRead
                             THEN <<"Token refresh failed: ", response.status>>
                             ELSE <<"body stream failed">>
            /\ tokenPc' = "refreshCatch"
       ELSE /\ tokenPc' = "json"
            /\ UNCHANGED thrown
    /\ UNCHANGED <<tokenArgs, requests, response, tokenResult>>
    /\ UNCHANGED promptVars

\* Line 709: response.json() rejects on a body that is not JSON.
ParseJson ==
    /\ tokenPc = "json"
    /\ IF response.body.kind = "json"
       THEN /\ tokenPc' = "parsed"
            /\ UNCHANGED thrown
       ELSE /\ thrown' = <<"Unexpected token in JSON">>
            /\ tokenPc' = "refreshCatch"
    /\ UNCHANGED <<tokenArgs, requests, response, tokenResult>>
    /\ UNCHANGED promptVars

\* Lines 712-720 and 749-754: the refreshed values are returned; Date.now()
\* is read after the response has come.
ReturnRefreshed ==
    /\ tokenPc = "parsed"
    /\ \E dateNow \in {tokenArgs.now, tokenArgs.now + MaxRequestMillis} :
           tokenResult' =
               Return(RefreshedTokenInfo(response.body.data,
                                         tokenArgs.refreshToken, dateNow)
                      @@ [wasRefreshed |-> TRUE])
    /\ tokenPc' = "returned"
    /\ UNCHANGED <<tokenArgs, requests, response, thrown>>
    /\ UNCHANGED promptVars

\* Lines 721-724: refreshOAuthTokens logs the error and throws it again.
RethrowFromRefresh ==
    /\ tokenPc = "refreshCatch"
    /\ tokenPc' = "autoCatch"
    /\ UNCHANGED <<tokenArgs, requests, response, thrown, tokenResult>>
    /\ UNCHANGED promptVars

\* Mutant: the caller's catch throws the error on.
ReturnOriginalOnFailure_Rethrows ==
    /\ tokenPc = "autoCatch"
    /\ tokenResult' = Throw(thrown)
    /\ tokenPc' = "threw"
    /\ UNCHANGED <<tokenArgs, requests, response, thrown>>
    /\ UNCHANGED promptVars

\* Lines 755-759: the failure is logged and the caller's values returned.
ReturnOriginalOnFailure ==
    /\ tokenPc = "autoCatch"
    /\ tokenResult' = Return(OriginalTokens)
    /\ tokenPc' = "returned"
    /\ UNCHANGED <<tokenArgs, requests, response, thrown>>
    /\ UNCHANGED promptVars

NextRefresh ==
    \/ CheckExpired
    \/ Fetch
    \/ CheckResponseOk
    \/ ParseJson
    \/ ReturnRefreshed
    \/ RethrowFromRefresh
    \/ ReturnOriginalOnFailure

SpecRefresh == InitRefresh /\ [][NextRefresh]_vars

-----------------------------------------------------------------------------
(* Properties of the context normalizer *)

\* prepareContext has returned a record.
Returned == pc = "prepared" /\ prepared.ok

\* prepareContext has thrown.
Thrown == pc = "caught" /\ ~prepared.ok /\ prompt = None

EventDataOfResult == prepared.value["eventData"]

KnownEventNames ==
    {"pull_request_review_comment", "pull_request_review", "issue_comment",
     "issues", "pull_request"}

\* The record is one of the seven variants of the data model.
IsVariant(ed) ==
    /\ ed.eventName \in KnownEventNames
    /\ ed.eventName = "issues" =>
           ed["eventAction"] \in {Some(<<"assigned">>), Some(<<"opened">>)}

\* The fields the data model marks required for the record's variant.
RequiredFields(ed) ==
    CASE ed.eventName \in {"pull_request_review_comment", "pull_request_review"} ->
            {"prNumber", "commentBody"}
      [] ed.eventName = "issue_comment" /\ ed.isPR ->
            {"commentId", "commentBody", "prNumber"}
      [] ed.eventName = "issue_comment" /\ ~ed.isPR ->
            {"commentId", "commentBody", "claudeBranch", "defaultBranch",
             "issueNumber"}
      [] ed.eventName = "issues" /\ ed["eventAction"] = Some(<<"assigned">>) ->
            {"issueNumber", "defaultBranch", "claudeBranch", "assigneeTrigger"}
      [] ed.eventName = "issues" ->
            {"issueNumber", "defaultBranch", "claudeBranch"}
      [] OTHER -> {"prNumber"}

\* C1: every record prepareContext returns is one of the variants and has
\* every field its variant requires present and non-empty; a call that does
\* not return such a record has thrown and hands no record on.
C1_RequiredFieldsPresent ==
    /\ Returned =>
           /\ IsVariant(EventDataOfResult)
           /\ \A k \in RequiredFields(EventDataOfResult) :
                  Populated(EventDataOfResult, k)
    /\ pc # "start" => (Returned \/ (Thrown /\ DOMAIN prepared = {"ok", "error"}))

\* An issue assigned record with its four required fields was returned.
C1_Witness ==
    /\ Returned
    /\ EventDataOfResult.eventName = "issues"
    /\ EventDataOfResult["eventAction"] = Some(<<"assigned">>)
    /\ EventDataOfResult["assigneeTrigger"] = Some(<<"bob">>)

\* The number a string of decimal digits denotes.
RECURSIVE DecimalValue(_)
DecimalValue(s) ==
    IF s = << >> THEN 0
    ELSE 10 * DecimalValue(SubSeq(s, 1, Len(s) - 1))
         + (CHOOSE d \in 0..9 : Digit[d + 1] = s[Len(s)])

\* s is the decimal string form of n: its digits, without a leading zero.
IsStringFormOf(s, n) ==
    /\ Len(s) >= 1
    /\ \A i \in 1..Len(s) : \E d \in 0..9 : Digit[d + 1] = s[i]
    /\ Len(s) > 1 => s[1] # "0"
    /\ DecimalValue(s) = n

\* C2: in every returned record exactly one of prNumber and issueNumber is
\* there, the one the record's isPR flag selects; the flag is the input's
\* isPR flag and the number is the string form of the input entity number.
C2_ExactlyOneNumber ==
    Returned =>
        LET ed == EventDataOfResult
        IN  /\ ed.isPR = context.isPR
            /\ ed.isPR =>
                   /\ Populated(ed, "prNumber")
                   /\ ~Has(ed, "issueNumber")
                   /\ IsStringFormOf(StrOf(ed["prNumber"]), context.entityNumber)
            /\ ~ed.isPR =>
                   /\ Populated(ed, "issueNumber")
                   /\ ~Has(ed, "prNumber")
                   /\ IsStringFormOf(StrOf(ed["issueNumber"]),
                                     context.entityNumber)

\* A record for an issue with a number of more than one digit was returned.
C2_Witness ==
    /\ Returned
    /\ ~EventDataOfResult.isPR
    /\ context.entityNumber >= 10
    /\ Len(StrOf(EventDataOfResult["issueNumber"])) >= 2


\* The review of a pull_request_review trigger on a PR has no body or an
\* empty one, and prepareContext has been called.
EmptyReviewBodyCall ==
    /\ pc # "start"
    /\ context.eventName = "pull_request_review"
    /\ context.isPR
    /\ context.payload.body \in {Undefined, Some(<< >>)}

\* C3 as stated: such a call returns a pull_request_review record with the
\* empty string as its commentBody and without a commentId.
C3_Original ==
    EmptyReviewBodyCall =>
        /\ prepared.ok
        /\ EventDataOfResult.eventName = "pull_request_review"
        /\ Get(EventDataOfResult, "commentBody") = Some(<< >>)
        /\ ~Has(EventDataOfResult, "commentId")

\* C3, amended: such a call throws "COMMENT_BODY is required for
\* pull_request_review event" and returns no record; a pull_request_review
\* record that is returned has a non-empty commentBody and no commentId.
C3_EmptyReviewBodyRejected ==
    /\ EmptyReviewBodyCall =>
           /\ Thrown
           /\ prepared.error = <<"COMMENT_BODY", " is required for ",
                                 "pull_request_review", " event">>
    /\ (Returned /\ EventDataOfResult.eventName = "pull_request_review") =>
           /\ Populated(EventDataOfResult, "commentBody")
           /\ ~Has(EventDataOfResult, "commentId")

\* A review without a body was rejected.
C3_Witness ==
    /\ EmptyReviewBodyCall
    /\ context.payload.body = Undefined
    /\ Thrown
    /\ Contains(prepared.error, "COMMENT_BODY")

\* The raw context selects one of the variants of the data model.
SelectsVariant(ctx) ==
    /\ ctx.eventName \in KnownEventNames
    /\ ctx.eventName = "issues" =>
           ctx.eventAction \in {Some(<<"assigned">>), Some(<<"opened">>)}

\* The required fields of the selected variant that the raw context omits,
\* by the names the error messages give them.  A number is omitted when the
\* entity is of the other kind; a comment id is never omitted, the payload
\* of a comment always has one.
OmittedFields(ctx) ==
    LET prKinds == {"pull_request_review_comment", "pull_request_review",
                    "pull_request"}
        commentKinds == {"pull_request_review_comment", "pull_request_review",
                         "issue_comment"}
        needsBranches == \/ ctx.eventName = "issues"
                         \/ ctx.eventName = "issue_comment" /\ ~ctx.isPR
    IN  {f \in {"PR_NUMBER", "ISSUE_NUMBER", "COMMENT_BODY", "CLAUDE_BRANCH",
                "DEFAULT_BRANCH", "ASSIGNEE_TRIGGER"} :
            \/ f = "PR_NUMBER" /\ ctx.eventName \in prKinds /\ ~ctx.isPR
            \/ f = "ISSUE_NUMBER" /\ ctx.eventName = "issues" /\ ctx.isPR
            \/ f = "COMMENT_BODY" /\ ctx.eventName \in commentKinds
                 /\ ~Truthy(ctx.payload.body)
            \/ f = "CLAUDE_BRANCH" /\ needsBranches /\ ~Truthy(ctx.claudeBranch)
            \/ f = "DEFAULT_BRANCH" /\ needsBranches
                 /\ ~Truthy(ctx.defaultBranch)
            \/ f = "ASSIGNEE_TRIGGER" /\ ctx.eventName = "issues"
                 /\ ctx.eventAction = Some(<<"assigned">>)
                 /\ ~Truthy(ctx.inputs.assigneeTrigger)}

\* How the message for a field names the event kind.
EventLabel(ctx, f) ==
    IF f = "ASSIGNEE_TRIGGER" THEN "issue assigned" ELSE ctx.eventName

\* The validation error for field f: it names the field and the event kind.
NamesField(ctx, f) ==
    /\ ~prepared.ok
    /\ Len(prepared.error) >= 4
    /\ SubSeq(prepared.error, 1, 4) =
           <<f, " is required for ", EventLabel(ctx, f), " event">>

\* C4 as stated: every omitted required field is named by the error raised.
C4_Original ==
    (pc # "start" /\ SelectsVariant(context)) =>
        \A f \in OmittedFields(context) : NamesField(context, f)

\* C4, amended: when required fields are omitted the call throws the
\* validation error of one of them (so of the omitted field itself when it
\* is the only one), naming the field and the event kind, and returns no
\* record; an issue assigned event without assigneeTrigger whose other
\* required fields are there throws the ASSIGNEE_TRIGGER error.
C4_OmittedFieldNamed ==
    (pc # "start" /\ SelectsVariant(context)) =>
        /\ OmittedFields(context) # {} =>
               /\ Thrown
               /\ \E f \in OmittedFields(context) : NamesField(context, f)
        /\ OmittedFields(context) = {"ASSIGNEE_TRIGGER"} =>
               prepared.error = <<"ASSIGNEE_TRIGGER", " is required for ",
                                  "issue assigned", " event">>

\* The assigned issue event without an assignee trigger was rejected.
C4_Witness ==
    /\ Thrown
    /\ context.eventName = "issues"
    /\ context.eventAction = Some(<<"assigned">>)
    /\ OmittedFields(context) = {"ASSIGNEE_TRIGGER"}
    /\ Contains(prepared.error, "ASSIGNEE_TRIGGER")

\* C5: no record is returned for an unsupported variant.  An event name
\* outside the five known ones throws the unsupported-event-type error; an
\* issues event whose action is neither "assigned" nor "opened" always
\* throws, and throws the unsupported-issue-action error when the action is
\* there and the other required fields are present.
C5_UnsupportedVariantFails ==
    /\ Returned =>
           /\ SelectsVariant(context)
           /\ IsVariant(EventDataOfResult)
           /\ EventDataOfResult.eventName = context.eventName
    /\ (pc # "start" /\ context.eventName \notin KnownEventNames) =>
           /\ Thrown
           /\ prepared.error = <<"Unsupported event type: ", context.eventName>>
    /\ (pc # "start" /\ context.eventName = "issues"
            /\ ~SelectsVariant(context)) =>
           /\ Thrown
           /\ (Truthy(context.eventAction) /\ OmittedFields(context) = {}) =>
                  prepared.error = <<"Unsupported issue action: ">>
                                   \o StrOf(context.eventAction)

\* An issues event with the action "labeled" was rejected for its action.
C5_Witness ==
    /\ Thrown
    /\ context.eventName = "issues"
    /\ context.eventAction = Some(<<"labeled">>)
    /\ prepared.error = <<"Unsupported issue action: ", "labeled">>

-----------------------------------------------------------------------------
(* Properties of the capability set builders *)

AllowedReturned == toolResult.fn = "buildAllowedToolsString"

DisallowedReturned == toolResult.fn = "buildDisallowedToolsString"

\* The comment-update token of an event kind, and the other one.
OwnToken(eventName) ==
    IF eventName = "pull_request_review_comment"
    THEN "mcp__github__update_pull_request_comment"
    ELSE "mcp__github__update_issue_comment"

OtherToken(eventName) ==
    IF eventName = "pull_request_review_comment"
    THEN "mcp__github__update_issue_comment"
    ELSE "mcp__github__update_pull_request_comment"

\* The extra string as appended: a comma and the string, or nothing when the
\* extra string is absent or empty.
ExtraSuffix(custom) ==
    IF custom # Undefined /\ custom[1] # << >>
    THEN <<",">> \o custom[1] ELSE << >>

\* The result without the appended extra string.
BasePart(result, custom) ==
    SubSeq(result, 1, Len(result) - Len(ExtraSuffix(custom)))

\* C6 as stated: for every extra string the allowed string contains the
\* token of the event kind and does not contain the other token.
C6_Original ==
    AllowedReturned =>
        /\ Contains(toolResult.value, OwnToken(toolArgs.eventName))
        /\ ~Contains(toolResult.value, OtherToken(toolArgs.eventName))

\* C6, amended: the allowed string contains the token of the event kind, its
\* base part (before the extra string) contains that token and not the
\* other one, and the other token is in the string exactly when the extra
\* string contains it.
C6_OneCommentToolInBase ==
    AllowedReturned =>
        LET r == toolResult.value
            base == BasePart(r, toolArgs.custom)
            own == OwnToken(toolArgs.eventName)
            other == OtherToken(toolArgs.eventName)
        IN  /\ Contains(r, own)
            /\ Contains(base, own)
            /\ ~Contains(base, other)
            /\ Contains(r, other) <=>
                   (toolArgs.custom # Undefined
                    /\ Contains(toolArgs.custom[1], other))

\* An inline review comment with an extra string: only the PR comment tool.
C6_Witness ==
    /\ AllowedReturned
    /\ toolArgs.eventName = "pull_request_review_comment"
    /\ toolArgs.custom = Some(<<"Bash">>)
    /\ Contains(toolResult.value, "mcp__github__update_pull_request_comment")
    /\ ~Contains(toolResult.value, "mcp__github__update_issue_comment")

AllowedBase(eventName) ==
    <<"Edit", ",", "Glob", ",", "Grep", ",", "LS", ",", "Read", ",", "Write",
      ",", "mcp__github_file_ops__commit_files", ",",
      "mcp__github_file_ops__delete_files", ",", OwnToken(eventName)>>

\* C7: both builders return the comma-joined base set followed, when the
\* extra string is there (non-empty), by one comma and the extra string as
\* it is, and the base set alone otherwise; the disallowed base set is
\* WebSearch,WebFetch for every event kind.
C7_ExtraPassedThrough ==
    /\ AllowedReturned =>
           toolResult.value =
               AllowedBase(toolArgs.eventName) \o ExtraSuffix(toolArgs.custom)
    /\ DisallowedReturned =>
           toolResult.value =
               <<"WebSearch", ",", "WebFetch">> \o ExtraSuffix(toolArgs.custom)

\* An extra string that repeats a tool of the base set was appended as it is.
C7_Witness ==
    /\ AllowedReturned
    /\ toolArgs.eventName = "issue_comment"
    /\ toolArgs.custom = Some(<<"mcp__github__update_issue_comment", ",">>)
    /\ Len(toolResult.value) = Len(AllowedBase("issue_comment")) + 3

-----------------------------------------------------------------------------
(* Properties of the records and of the document *)

\* The field is present: the key is there and holds a string.  (A key that
\* holds undefined counts as absent.)
Present(obj, k) == Has(obj, k) /\ obj[k] # Undefined

\* The rule of an optional field: it is present exactly when the source
\* value is a non-empty string, and then it holds the source value.
OptionalRule(obj, k, source) ==
    /\ Present(obj, k) <=> (source # Undefined /\ source[1] # << >>)
    /\ Present(obj, k) => obj[k] = source

\* The source of triggerUsername: the author of the kind's payload.
UsernameSource(ctx) ==
    IF ctx.eventName \in {"issue_comment", "pull_request_review",
                          "pull_request_review_comment", "issues"}
    THEN ctx.payload.login ELSE Undefined

\* The optional fields other than the pull_request action name obey the
\* rule, and triggerPhrase is always there, "@claude" by default.
OptionalFieldsPreserved ==
    Returned =>
        LET rec == prepared.value
            ed == EventDataOfResult
        IN  /\ OptionalRule(rec, "triggerUsername", UsernameSource(context))
            /\ OptionalRule(rec, "customInstructions",
                            context.inputs.customInstructions)
            /\ OptionalRule(rec, "allowedTools", context.inputs.allowedTools)
            /\ OptionalRule(rec, "disallowedTools",
                            context.inputs.disallowedTools)
            /\ OptionalRule(rec, "directPrompt", context.inputs.directPrompt)
            /\ OptionalRule(rec, "claudeBranch", context.claudeBranch)
            /\ OptionalRule(ed, "claudeBranch", context.claudeBranch)
            /\ OptionalRule(ed, "defaultBranch", context.defaultBranch)
            /\ IF ed.eventName \in {"issue_comment",
                                    "pull_request_review_comment"}
               THEN /\ Has(ed, "commentId")
                    /\ IsStringFormOf(StrOf(ed["commentId"]), context.payload.id)
               ELSE ~Has(ed, "commentId")
            /\ Has(rec, "triggerPhrase")
            /\ rec["triggerPhrase"] =
                   IF context.inputs.triggerPhrase \in {Undefined, Some(<< >>)}
                   THEN Some(<<"@claude">>)
                   ELSE context.inputs.triggerPhrase

\* C8 as stated: every optional field, the action name of a pull_request
\* record included, is in the record exactly when its source is non-empty,
\* and then equals the source; triggerPhrase is the only defaulted field.
C8_Original ==
    /\ OptionalFieldsPreserved
    /\ (Returned /\ EventDataOfResult.eventName = "pull_request") =>
           OptionalRule(EventDataOfResult, "eventAction", context.eventAction)


\* generatePrompt has returned a document.
Generated == prompt.ok

Doc == prompt.value

Count(s, atom) == Cardinality({i \in 1..Len(s) : s[i] = atom})

IndexOf(s, atom) == CHOOSE i \in 1..Len(s) : s[i] = atom

\* The pair of markers is in the document once, each on a line of its own
\* around the body.
HasSection(doc, open, close) ==
    /\ Count(doc, open) = 1
    /\ Count(doc, close) = 1
    /\ IndexOf(doc, open) + 3 <= IndexOf(doc, close)
    /\ doc[IndexOf(doc, open) + 1] = NL
    /\ doc[IndexOf(doc, close) - 1] = NL

\* The text between the line of the opening and the line of the closing marker.
SectionBody(doc, open, close) ==
    SubSeq(doc, IndexOf(doc, open) + 2, IndexOf(doc, close) - 2)

BothSectionsMarked ==
    /\ HasSection(Doc, "<review_comments>", "</review_comments>")
    /\ HasSection(Doc, "<changed_files>", "</changed_files>")

ReviewSection == SectionBody(Doc, "<review_comments>", "</review_comments>")

FilesSection == SectionBody(Doc, "<changed_files>", "</changed_files>")

\* C9 as stated: both pairs of markers are in every document and, when isPR
\* is false, the body between them is a placeholder text, never empty.
C9_Original ==
    Generated =>
        /\ BothSectionsMarked
        /\ ~EventDataOfResult.isPR =>
               (ReviewSection # << >> /\ FilesSection # << >>)

\* C9, amended: both pairs of markers are in every document; when isPR is
\* false the body between them is the empty string; when isPR is true it is
\* the formatted content or, when that is empty, the placeholder text.
C9_SectionsAlwaysMarked ==
    Generated =>
        /\ BothSectionsMarked
        /\ ~EventDataOfResult.isPR =>
               (ReviewSection = << >> /\ FilesSection = << >>)
        /\ EventDataOfResult.isPR =>
               /\ ReviewSection =
                      IF githubData.formattedReviewComments # << >>
                      THEN githubData.formattedReviewComments
                      ELSE <<"[no review comments]">>
               /\ FilesSection =
                      IF githubData.formattedChangedFiles # << >>
                      THEN githubData.formattedChangedFiles
                      ELSE <<"[no changed files]">>

\* The document of an issue whose data bag has review comments and changed
\* files: both sections are there and empty.
C9_Witness ==
    /\ Generated
    /\ ~EventDataOfResult.isPR
    /\ githubData.formattedReviewComments # << >>
    /\ githubData.formattedChangedFiles # << >>
    /\ BothSectionsMarked
    /\ ReviewSection = << >>
    /\ FilesSection = << >>

\* s ends with t.
EndsWith(s, t) ==
    /\ Len(s) >= Len(t)
    /\ SubSeq(s, Len(s) - Len(t) + 1, Len(s)) = t

\* t occurs in s as a run of consecutive atoms.
ContainsSeq(s, t) ==
    \E i \in 1..(Len(s) - Len(t) + 1) : SubSeq(s, i, i + Len(t) - 1) = t

\* C10: each optional block is in the document exactly when its condition
\* holds: the images note iff the image mapping is non-empty, the
\* trigger_comment block iff the kind is a comment or review kind with a
\* non-empty comment body, the direct_prompt block iff directPrompt is
\* present, the custom-instructions appendix iff customInstructions is
\* present, and then the document ends with it.
C10_OptionalBlocks ==
    Generated =>
        LET rec == prepared.value
            ed == EventDataOfResult
        IN  /\ Count(Doc, "<images_info>") =
                   IF githubData.imageUrlMapSize > 0 THEN 1 ELSE 0
            /\ Count(Doc, "</images_info>") = Count(Doc, "<images_info>")
            /\ Count(Doc, "</trigger_comment>") =
                   IF /\ ed.eventName \in {"issue_comment",
                                           "pull_request_review_comment",
                                           "pull_request_review"}
                      /\ Present(ed, "commentBody")
                      /\ ed["commentBody"] # Some(<< >>)
                   THEN 1 ELSE 0
            /\ Count(Doc, "</trigger_comment>") = 1 =>
                   ContainsSeq(Doc, <<"<trigger_comment>", NL>>
                                    \o stripHtmlComments(StrOf(ed["commentBody"]))
                                    \o <<NL, "</trigger_comment>">>)
            /\ Count(Doc, "</direct_prompt>") =
                   IF Present(rec, "directPrompt") THEN 1 ELSE 0
            /\ Present(rec, "directPrompt") =>
                   ContainsSeq(Doc, <<"<direct_prompt>", NL>>
                                    \o stripHtmlComments(StrOf(rec["directPrompt"]))
                                    \o <<NL, "</direct_prompt>">>)
            /\ Present(rec, "directPrompt") <=>
                   context.inputs.directPrompt \notin {Undefined, Some(<< >>)}
            /\ Count(Doc, "[custom instructions:]") =
                   IF Present(rec, "customInstructions") THEN 1 ELSE 0
            /\ Present(rec, "customInstructions") =>
                   EndsWith(Doc, <<NL, NL, "[custom instructions:]", NL>>
                                 \o StrOf(rec["customInstructions"]))

\* A document with the trigger comment and the custom instructions but no
\* direct prompt and no images.
C10_Witness ==
    /\ Generated
    /\ Count(Doc, "</trigger_comment>") = 1
    /\ Count(Doc, "</direct_prompt>") = 0
    /\ Count(Doc, "<images_info>") = 0
    /\ EndsWith(Doc, <<"[custom instructions:]", NL, "be brief">>)

-----------------------------------------------------------------------------
(* Branch-workflow guidance *)

PushToExistingBranch == "[- push directly to the existing branch using "

AlwaysPushToExisting ==
    "[- always push to the existing branch when triggered on a PR]"

AlreadyOnBranch == "[- you are already on the correct branch ("

CreatePrLink == "[Create PR]("

\* The working branch of the returned record, as the assembler reads it.
WorkingBranch == Get(EventDataOfResult, "claudeBranch")

\* The compare range of the link: the default branch as the template prints
\* it, three dots, the branch-name part.
CompareRange ==
    <<"/compare/">> \o Interp(Get(EventDataOfResult, "defaultBranch"))
    \o <<"...", "<branch-name>">>

\* The pull-request-creation link of the returned record.
PrCreationLink ==
    <<CreatePrLink>> \o GITHUB_SERVER_URL \o <<"/">>
    \o Interp(Get(prepared.value, "repository")) \o CompareRange
    \o <<"?quick_pull=1&title=<url-encoded-title>&body=<url-encoded-body>)">>

\* C11: with isPR true and no working branch the document carries the
\* "push directly to the existing branch" guidance and no
\* pull-request-creation link; with a working branch it carries the "already
\* on branch X, do not create a new one" guidance naming that branch and one
\* pull-request-creation link whose compare range has exactly three dots
\* between the default branch and the branch-name part.
C11_BranchGuidance ==
    Generated =>
        /\ (EventDataOfResult.isPR /\ ~Truthy(WorkingBranch)) =>
               /\ Count(Doc, PushToExistingBranch) = 1
               /\ Count(Doc, AlwaysPushToExisting) = 1
               /\ Count(Doc, AlreadyOnBranch) = 0
               /\ Count(Doc, CreatePrLink) = 0
               /\ Count(Doc, "/compare/") = 0
        /\ Truthy(WorkingBranch) =>
               /\ Count(Doc, PushToExistingBranch) = 0
               /\ Count(Doc, AlwaysPushToExisting) = 0
               /\ Count(Doc, AlreadyOnBranch) = 2
               /\ ContainsSeq(Doc, <<AlreadyOnBranch>> \o StrOf(WorkingBranch)
                                   \o <<"); do not create a new branch]">>)
               /\ Count(Doc, CreatePrLink) = 1
               /\ ContainsSeq(Doc, PrCreationLink)

\* A document of a PR event with a working branch: the link is there with
\* its three-dot range.
C11_Witness ==
    /\ Generated
    /\ EventDataOfResult.isPR
    /\ WorkingBranch = Some(<<"claude/issue-12">>)
    /\ ContainsSeq(Doc, <<CreatePrLink, "https://github.com", "/", "owner",
                          "/", "repo", "/compare/", "main", "...",
                          "<branch-name>">>)

\* Scenario 4: a PR event without a working branch.
PushToExistingReached ==
    /\ Generated
    /\ EventDataOfResult.isPR
    /\ ~Truthy(WorkingBranch)
    /\ Count(Doc, PushToExistingBranch) = 1

-----------------------------------------------------------------------------
(* Classifier on the records of the normalizer *)

\* The category the kind of a record is to be mapped to.
CategoryOf(ed) ==
    CASE ed.eventName = "pull_request_review_comment" -> "REVIEW_COMMENT"
      [] ed.eventName = "pull_request_review" -> "PR_REVIEW"
      [] ed.eventName = "issue_comment" -> "GENERAL_COMMENT"
      [] ed.eventName = "issues" /\ Get(ed, "eventAction") = Some(<<"opened">>) ->
             "ISSUE_CREATED"
      [] ed.eventName = "issues" /\ Get(ed, "eventAction") = Some(<<"assigned">>) ->
             "ISSUE_ASSIGNED"
      [] ed.eventName = "pull_request" -> "PULL_REQUEST"
      [] OTHER -> "[no category]"

\* generatePrompt, and with it the classifier, has been called.
Classified == githubData # NoData

\* C12: for every record prepareContext returned, getEventTypeAndContext
\* returns (it never raises "Unexpected event type") and yields the category
\* fixed for the record's kind; the document assembled from the record
\* carries that category.
C12_ClassifierTotalOnRecords ==
    prepared.ok =>
        /\ getEventTypeAndContext(prepared.value).ok
        /\ getEventTypeAndContext(prepared.value).value.eventType
               = CategoryOf(EventDataOfResult)
        /\ CategoryOf(EventDataOfResult) # "[no category]"
        /\ Classified =>
               /\ Generated
               /\ ContainsSeq(Doc, <<"<event_type>",
                                     CategoryOf(EventDataOfResult),
                                     "</event_type>">>)
               /\ Count(Doc, "<event_type>") = 1

\* Round trip 1: issue_comment on PR 12 with comment id 55 is classified
\* GENERAL_COMMENT.
C12_Witness ==
    /\ Classified
    /\ Generated
    /\ EventDataOfResult.eventName = "issue_comment"
    /\ EventDataOfResult.isPR
    /\ EventDataOfResult["prNumber"] = Some(<<"1", "2">>)
    /\ EventDataOfResult["commentId"] = Some(<<"5", "5">>)
    /\ ContainsSeq(Doc, <<"<event_type>", "GENERAL_COMMENT", "</event_type>">>)

-----------------------------------------------------------------------------
(* Order of the steps of createPrompt *)

ExportedNames == [i \in 1..Len(exported) |-> exported[i].name]

\* The steps that have happened form a prefix of normalize, assemble, write,
\* export ALLOWED_TOOLS, export DISALLOWED_TOOLS.
StepsInOrder ==
    /\ Classified => prepared.ok
    /\ promptFile # Undefined =>
           (Classified /\ prompt.ok /\ promptFile = Some(prompt.value))
    /\ ExportedNames \in {<< >>, <<"ALLOWED_TOOLS">>,
                          <<"ALLOWED_TOOLS", "DISALLOWED_TOOLS">>}
    /\ exported # << >> => promptFile # Undefined
    /\ pc = "done" =>
           /\ ExportedNames = <<"ALLOWED_TOOLS", "DISALLOWED_TOOLS">>
           /\ ~failed
           /\ exitCode = Undefined

\* Normalization or assembly has raised an error.
RaisedBeforeWrite ==
    \/ pc # "start" /\ ~prepared.ok
    \/ Classified /\ ~prompt.ok

\* An error was caught: nothing was exported, and failure and exit code go
\* together.
FailureIsClean ==
    /\ RaisedBeforeWrite => (promptFile = Undefined /\ exported = << >>)
    /\ pc \in {"caught", "failed", "exited"} => exported = << >>
    /\ failed <=> pc \in {"failed", "exited"}
    /\ exitCode # Undefined <=> pc = "exited"
    /\ pc = "exited" => exitCode = Some(<<"1">>)

\* C13: the steps happen in the order normalize, assemble, write, export
\* ALLOWED_TOOLS, export DISALLOWED_TOOLS; the variables are never exported
\* before the document is written; when normalization or assembly raises,
\* the file is not written and nothing is exported; and every caught error
\* leads to the run marked failed and the exit with code 1.
C13_OrderAndFailure ==
    /\ [](StepsInOrder /\ FailureIsClean)
    /\ (pc = "caught") ~> (pc = "exited" /\ failed /\ exitCode = Some(<<"1">>))

\* A run whose normalization raised: it ended failed with exit code 1, no
\* file and no variable.
C13_Witness ==
    /\ pc = "exited"
    /\ ~prepared.ok
    /\ failed
    /\ exitCode = Some(<<"1">>)
    /\ promptFile = Undefined
    /\ exported = << >>

\* A run that went through: the file holds the document and both variables
\* are exported in order.
AllStepsDone ==
    /\ pc = "done"
    /\ promptFile = Some(prompt.value)
    /\ ExportedNames = <<"ALLOWED_TOOLS", "DISALLOWED_TOOLS">>

-----------------------------------------------------------------------------
(* Token refresh *)

\* The call of autoRefreshTokensIfNeeded is over.
TokenCallOver == tokenPc \in {"returned", "threw"}

NotExpiredAtCall ==
    ~isTokenExpired(tokenArgs.expiresAt, tokenArgs.bufferMinutes,
                    tokenArgs.now)

\* The refresh request succeeded: a response that is ok, with a JSON body.
RefreshSucceeded ==
    /\ Len(requests) = 1
    /\ response.ok
    /\ response.body.kind = "json"
    /\ thrown = NoError

\* C14: autoRefreshTokensIfNeeded always returns and never throws; a token
\* not expired within the buffer comes back as it was, wasRefreshed false,
\* with no request sent; a failed refresh gives the caller's values back,
\* wasRefreshed false; wasRefreshed is true only after a request succeeded,
\* with the access token and expiry of the response and its refresh token,
\* or the old one when the response has none.
C14_RefreshNeverThrows ==
    /\ Len(requests) <= 1
    /\ tokenPc # "threw"
    /\ TokenCallOver =>
           /\ tokenResult.ok
           /\ NotExpiredAtCall =>
                  (requests = << >> /\ tokenResult.value = OriginalTokens)
           /\ thrown # NoError => tokenResult.value = OriginalTokens
           /\ ~tokenResult.value.wasRefreshed =>
                  tokenResult.value = OriginalTokens
           /\ tokenResult.value.wasRefreshed <=> RefreshSucceeded
           /\ tokenResult.value.wasRefreshed =>
                  LET data == response.body.data
                      v == tokenResult.value
                  IN  /\ ~NotExpiredAtCall
                      /\ v.accessToken = data.access_token
                      /\ v.refreshToken =
                             IF data.refresh_token \in {Undefined, Some(<< >>)}
                             THEN tokenArgs.refreshToken
                             ELSE data.refresh_token[1]
                      /\ ParseInt(v.expiresAt) - data.expires_in * 1000
                             \in tokenArgs.now..(tokenArgs.now + MaxRequestMillis)
                      /\ requests[1].refresh_token = tokenArgs.refreshToken

\* A refresh whose response carried no refresh token: the old one is kept
\* with the new access token.
C14_Witness ==
    /\ tokenPc = "returned"
    /\ tokenResult.ok
    /\ tokenResult.value.wasRefreshed
    /\ response.body.data.refresh_token = Undefined
    /\ tokenResult.value.refreshToken = tokenArgs.refreshToken
    /\ tokenResult.value.accessToken = <<"access-new">>

\* A refresh that failed: the caller's values came back.
RefreshFailedReached ==
    /\ tokenPc = "returned"
    /\ thrown # NoError
    /\ tokenResult.value = OriginalTokens

\* A token still valid: nothing was sent.
StillValidReached ==
    /\ tokenPc = "returned"
    /\ NotExpiredAtCall
    /\ requests = << >>

-----------------------------------------------------------------------------
(* Default branch of the pull-request-creation link *)

LinkEmitted == Generated /\ Count(Doc, CreatePrLink) = 1

\* C15 as stated: whenever the document carries the pull-request-creation
\* link, the record's default branch is present, so the compare range and
\* the target-branch line never print an absent default branch.
C15_Original ==
    LinkEmitted =>
        /\ Present(EventDataOfResult, "defaultBranch")
        /\ ~ContainsSeq(Doc, <<"/compare/", "undefined", "...">>)
        /\ ~ContainsSeq(Doc, <<"[- target-branch should be '", "undefined">>)

\* The link is emitted exactly for a record with a working branch; the
\* records of issue events with a link always have their default branch.
LinkFollowsWorkingBranch ==
    Generated =>
        /\ LinkEmitted <=> Present(EventDataOfResult, "claudeBranch")
        /\ (LinkEmitted /\ ~EventDataOfResult.isPR) =>
               Present(EventDataOfResult, "defaultBranch")

-----------------------------------------------------------------------------
(* The document and the allowed tools name the same comment tool *)

CommentUpdateTools == {UpdatePRComment, UpdateIssueComment}

\* The comment-update tools the written document tells the agent to call.
ToolsNamedInDocument ==
    {t \in CommentUpdateTools : Contains(StrOf(promptFile), t)}

\* ALLOWED_TOOLS was exported for a record without caller extras.
ExportedWithoutExtras ==
    /\ pc \in {"allowed", "done"}
    /\ ~Present(prepared.value, "allowedTools")

\* C16 as stated: for every record, each comment-update tool the document
\* tells the agent to call is a token of the allowed-tools string exported
\* for the same record (no caller extras).
C16_Original ==
    ExportedWithoutExtras =>
        \A t \in ToolsNamedInDocument : Contains(exported[1].value, t)

\* For every kind but pull_request_review_comment the two agree.
OtherKindsAgree ==
    (ExportedWithoutExtras
        /\ EventDataOfResult.eventName # "pull_request_review_comment") =>
        /\ ToolsNamedInDocument = {UpdateIssueComment}
        /\ Contains(exported[1].value, UpdateIssueComment)

=============================================================================
